---- MODULE Spec2Model ----
(***************************************************************************)
(* MAD.NET: the managed Decoder session of src/MAD.h, a forwarding wrapper *)
(* over the MPEG audio engine (stream, frame and synth state blocks).      *)
(* The wrapper's methods and properties are translated from src/MAD.h; the *)
(* engine entry points they forward to (mad_stream_init, mad_stream_buffer,*)
(* mad_frame_decode, mad_synth_frame, the finish calls, MAD_RECOVERABLE)   *)
(* are not part of src/ and are modelled from the design in spec.md.       *)
(***************************************************************************)
EXTENDS Integers, Sequences, FiniteSets, TLC

(* ------------------------------ bounds --------------------------------- *)
\* size in bytes of the largest input region a caller installs
MaxBytes == 4
\* bytes a frame occupies in the input (one header byte, the rest body)
FrameLen == 2
\* slots of the synthesis filterbank's history ring
RingSize == 2
\* address of the caller's input memory (any non-null address)
BufBase == 16

(* ------------------------ enum class Error ----------------------------- *)
\* a variant of the enum in which Memory sits in the stream-content range
ErrorCodeMemoryMisnumbered ==
    [None |-> 0, BufferLength |-> 1, BufferData |-> 2, Memory |-> 305,
     LostSync |-> 257, BadLayer |-> 258, BadBitRate |-> 259,
     BadSampleRate |-> 260, BadEmphasis |-> 261, BadCRC |-> 513,
     BadBitAlloc |-> 529, BadScaleFactor |-> 545, BadMode |-> 546,
     BadFrameLength |-> 561, BadBigValues |-> 562, BadBlockType |-> 563,
     BadSCFSI |-> 564, BadData |-> 565, BadAudioLength |-> 566,
     BadHuffmanTable |-> 567, BadHuffmanData |-> 568, BadStero |-> 569]

\* a variant of the enum in which BadBitRate sits in the buffer range
ErrorCodeBitRateMisnumbered ==
    [None |-> 0, BufferLength |-> 1, BufferData |-> 2, Memory |-> 49,
     LostSync |-> 257, BadLayer |-> 258, BadBitRate |-> 3,
     BadSampleRate |-> 260, BadEmphasis |-> 261, BadCRC |-> 513,
     BadBitAlloc |-> 529, BadScaleFactor |-> 545, BadMode |-> 546,
     BadFrameLength |-> 561, BadBigValues |-> 562, BadBlockType |-> 563,
     BadSCFSI |-> 564, BadData |-> 565, BadAudioLength |-> 566,
     BadHuffmanTable |-> 567, BadHuffmanData |-> 568, BadStero |-> 569]

\* enum class Error: name |-> numeric value (0x0000 .. 0x0239)
ErrorCode ==
    [None |-> 0, BufferLength |-> 1, BufferData |-> 2, Memory |-> 49,
     LostSync |-> 257, BadLayer |-> 258, BadBitRate |-> 259,
     BadSampleRate |-> 260, BadEmphasis |-> 261, BadCRC |-> 513,
     BadBitAlloc |-> 529, BadScaleFactor |-> 545, BadMode |-> 546,
     BadFrameLength |-> 561, BadBigValues |-> 562, BadBlockType |-> 563,
     BadSCFSI |-> 564, BadData |-> 565, BadAudioLength |-> 566,
     BadHuffmanTable |-> 567, BadHuffmanData |-> 568, BadStero |-> 569]

ErrorNames == DOMAIN ErrorCode

\* literal int FrameSampleCount, halved
FrameSampleCountHalved == 32 * 18

\* literal int FrameSampleCount = 1152
FrameSampleCount == 1152

(* --------------------------- engine: data ------------------------------ *)
\* what one position of the caller's memory can hold: a byte without the sync
\* pattern, or a frame (valid, or malformed in one way)
FrameTokens == {"okA", "okB", "badBitRate", "badSampleRate", "badMode"}

\* the input alphabets of the three specifications: malformed streams with one
\* kind of valid frame; well-formed streams of two kinds of frame; a minimal
\* stream for the sessions that exercise the Error setter
StreamTokens == {"junk", "okA", "badBitRate", "badSampleRate", "badMode"}
SynthTokens == {"junk", "okA", "okB"}
ErrTokens == {"okA"}

\* frames whose header has an out-of-table bitrate/sample-rate/mode combination
OutOfTable == {"badBitRate", "badSampleRate", "badMode"}
ValidFrames == {"okA", "okB"}

\* header fields a frame carries
HeaderOf(t) ==
    CASE t = "okA" -> [samplerate |-> 44100, channels |-> 2]
      [] t = "okB" -> [samplerate |-> 32000, channels |-> 1]
      [] OTHER     -> [samplerate |-> 48000, channels |-> 2]

\* the reconstructed subband content of a valid frame (abstracted to a number)
ContentOf(t) == IF t = "okA" THEN 1 ELSE 2

\* subband sample sets per frame, 32 PCM samples each
NSBSamples == 36

RECURSIVE BytesOf(_)
\* the bytes of a token sequence: a frame is its header byte then body bytes
BytesOf(toks) ==
    IF toks = << >> THEN << >>
    ELSE LET t == Head(toks)
         IN  (IF t = "junk" THEN << "junk" >>
              ELSE << t >> \o [i \in 1..(FrameLen - 1) |-> "body"])
             \o BytesOf(Tail(toks))

RECURSIVE TokenSeqs(_, _)
\* the token sequences over alphabet A of length at most n
TokenSeqs(A, n) ==
    IF n = 0 THEN { << >> }
    ELSE LET S == TokenSeqs(A, n - 1)
         IN  S \cup { Append(s, t) : s \in { x \in S : Len(x) = n - 1 }, t \in A }

\* the arguments SetInput can be called with: a null buffer, or the caller's
\* memory holding some bytes, of which Length are handed to the decoder
InputsOver(seqs) ==
    { [ptr |-> 0, mem |-> << >>, length |-> 0] } \cup
    UNION { { [ptr |-> BufBase, mem |-> SubSeq(BytesOf(s), 1, n), length |-> n] :
                n \in { k \in 0..MaxBytes : k <= Len(BytesOf(s)) } } : s \in seqs }
Inputs == InputsOver(TokenSeqs(StreamTokens, MaxBytes))
SynthInputs == InputsOver(TokenSeqs(SynthTokens, MaxBytes))
ErrInputs == InputsOver(TokenSeqs(ErrTokens, MaxBytes))

\* the codes a caller installs through the Error setter: clear, or override
SetterCodes == {"None", "Memory"}

ZeroStream ==
    [buffer |-> 0, bufend |-> 0, this_frame |-> 0, next_frame |-> 0,
     sync |-> TRUE, error |-> 0, main_data |-> 0]
ZeroFrame == [header |-> [samplerate |-> 0, channels |-> 0], sbsample |-> 0]
ZeroSynth ==
    [pos |-> 0, ring |-> [i \in 0..(RingSize - 1) |-> 0],
     pcm |-> [samplerate |-> 0, channels |-> 0, length |-> 0, samples |-> 0]]

VARIABLES
    phase,      \* "Uninitialized", "Initialized", "Terminated"
    heap,       \* native blocks currently allocated
    _Stream,    \* mad_stream* (0 is null)
    _Frame,     \* mad_frame*
    _Synth,     \* mad_synth*
    stream,     \* contents of *_Stream
    frame,      \* contents of *_Frame
    synth,      \* contents of *_Synth
    mem,        \* bytes of the caller's memory the stream points into
    lastDecode, \* outcome of DecodeFrame, when it is the operation that ran last
    decoded,    \* the frame the most recent DecodeFrame decoded successfully
    synthDone,  \* SynthFrame has run since the most recent DecodeFrame
    fatal       \* history of fatal decode errors

vars == << phase, heap, _Stream, _Frame, _Synth, stream, frame, synth, mem,
           lastDecode, decoded, synthDone, fatal >>

NoDecode == [ret |-> TRUE, engineRet |-> 0, attempts |-> 0, tok |-> "none",
             whole |-> FALSE]

(* ------------------------ engine: operations --------------------------- *)
\* operator new: the address of a fresh block
NewBlock(h) == CHOOSE b \in 1..(Cardinality(h) + 1) : b \notin h

\* MAD_RECOVERABLE(error): the stream-content range of the code (error & 0xff00)
MAD_RECOVERABLE(e) == ((e \div 256) % 256) * 256

mad_stream_init == ZeroStream
mad_frame_init == ZeroFrame
mad_synth_init == ZeroSynth

\* mad_stream_buffer: install the region and put both cursors at its start
mad_stream_buffer(st, buffer, length) ==
    [st EXCEPT !.buffer = buffer, !.bufend = buffer + length,
               !.this_frame = buffer, !.next_frame = buffer, !.sync = TRUE]

\* the byte at address p of the installed region
ByteAt(st, m, p) == m[p - st.buffer + 1]
HasSync(st, m, p) == ByteAt(st, m, p) \in FrameTokens

\* mad_frame_decode: one decode attempt at the stream's cursor.
\* canAlloc: whether the allocator can supply the working buffer now.
mad_frame_decode(st, fr, h, m, canAlloc) ==
    LET end == st.bufend
        p0  == st.next_frame
        Fail(s, f, name, t, w) ==
            [stream |-> [s EXCEPT !.error = ErrorCode[name]], frame |-> f,
             heap |-> h, ret |-> -1, tok |-> t, whole |-> w]
        \* first address >= p0 that holds the sync pattern, else end
        Cands == { q \in p0..(end - 1) : HasSync(st, m, q) }
        sy  == IF Cands = {} THEN end
               ELSE CHOOSE q \in Cands : \A r \in Cands : q <= r
    IN
    IF p0 = 0 THEN
        Fail([st EXCEPT !.sync = FALSE], fr, "BufferData", "none", FALSE)
    ELSE IF st.sync /\ end - p0 < 1 THEN
        Fail([st EXCEPT !.sync = FALSE], fr, "BufferLength", "none", FALSE)
    ELSE IF st.sync /\ ~HasSync(st, m, p0) THEN
        Fail([st EXCEPT !.this_frame = p0, !.next_frame = p0 + 1,
                        !.sync = FALSE], fr, "LostSync", "none", FALSE)
    ELSE IF ~st.sync /\ sy = end THEN
        Fail([st EXCEPT !.next_frame = end, !.sync = FALSE], fr,
             "BufferLength", "none", FALSE)
    ELSE
        LET p == IF st.sync THEN p0 ELSE sy
            t == ByteAt(st, m, p)
            whole == p + FrameLen <= end
            s1 == [st EXCEPT !.this_frame = p, !.next_frame = p + 1,
                             !.sync = FALSE]
            s2 == [st EXCEPT !.this_frame = p, !.next_frame = p + FrameLen,
                             !.sync = TRUE]
            f2 == [fr EXCEPT !.header = HeaderOf(t)]
        IN
        IF t = "badBitRate" THEN Fail(s1, fr, "BadBitRate", t, whole)
        ELSE IF t = "badSampleRate" THEN Fail(s1, fr, "BadSampleRate", t, whole)
        ELSE IF ~whole THEN
            Fail([s1 EXCEPT !.next_frame = p], fr, "BufferLength", t, whole)
        ELSE IF t = "badMode" THEN Fail(s2, fr, "BadMode", t, whole)
        ELSE IF st.main_data = 0 /\ ~canAlloc THEN
            Fail([s2 EXCEPT !.next_frame = p], fr, "Memory", t, whole)
        ELSE
            LET b == IF st.main_data = 0 THEN NewBlock(h) ELSE st.main_data
            IN  [stream |-> [s2 EXCEPT !.main_data = b],
                 frame  |-> [f2 EXCEPT !.sbsample = ContentOf(t)],
                 heap   |-> h \cup {b}, ret |-> 0, tok |-> t, whole |-> whole]

RECURSIVE RingSum(_, _)
RingSum(ring, n) == IF n = 0 THEN 0 ELSE ring[n - 1] + RingSum(ring, n - 1)

\* mad_synth_frame: run the filterbank over the frame's subband samples
mad_synth_frame(sy, fr) ==
    [pos  |-> (sy.pos + 1) % RingSize,
     ring |-> [sy.ring EXCEPT ![sy.pos] = fr.sbsample],
     pcm  |-> [samplerate |-> fr.header.samplerate,
               channels   |-> fr.header.channels,
               length     |-> 32 * NSBSamples,
               samples    |-> fr.sbsample + RingSum(sy.ring, RingSize)]]

\* mad_stream_finish: give back the stream's working buffer; the block's
\* contents mean nothing afterwards
mad_stream_finish(st) == ZeroStream
mad_frame_finish(fr) == ZeroFrame
mad_synth_finish(sy) == ZeroSynth

(* ----------------------- Decoder: properties --------------------------- *)
CurrentFrame == stream.this_frame

\* NextFrame reading the start of the buffer instead of the next frame
NextFrameOfBuffer == stream.buffer

NextFrame == stream.next_frame

\* SampleRate reading the decoded frame's header instead of the synth's PCM
SampleRateOfFrame == frame.header.samplerate

SampleRate == synth.pcm.samplerate
Channels == synth.pcm.channels

\* Output pointing at the filterbank slot being written instead of the PCM
OutputOfFilter == [block |-> _Synth, field |-> "filter", index |-> synth.pos]

\* the address of the pcm.samples array inside the synth block
Output == [block |-> _Synth, field |-> "pcm.samples", index |-> 0]

Error == stream.error
ErrorRecoverable == MAD_RECOVERABLE(stream.error) # 0

(* ------------------------ Decoder: methods ----------------------------- *)
\* The methods dereference _Stream, _Frame and _Synth without a check; calls
\* before Initialize or after Terminate are outside the documented contract
\* and the callers modelled here do not make them.
Initialize ==
    /\ phase = "Uninitialized"
    /\ LET s == NewBlock(heap)
           f == NewBlock(heap \cup {s})
           y == NewBlock(heap \cup {s, f})
       IN  /\ _Stream' = s
           /\ _Frame' = f
           /\ _Synth' = y
           /\ heap' = heap \cup {s, f, y}
    /\ stream' = mad_stream_init
    /\ frame' = mad_frame_init
    /\ synth' = mad_synth_init
    /\ phase' = "Initialized"
    /\ lastDecode' = NoDecode
    /\ UNCHANGED << mem, decoded, synthDone, fatal >>

Terminate ==
    /\ phase = "Initialized"
    /\ stream' = mad_stream_finish(stream)
    /\ frame' = mad_frame_finish(frame)
    /\ synth' = mad_synth_finish(synth)
    /\ heap' = heap \ {stream.main_data}
    /\ phase' = "Terminated"
    /\ mem' = << >>
    /\ lastDecode' = NoDecode
    /\ decoded' = "none"
    /\ synthDone' = FALSE
    /\ UNCHANGED << _Stream, _Frame, _Synth, fatal >>

SetInputFrom(ins) ==
    /\ phase = "Initialized"
    /\ \E in \in ins :
         /\ mem' = in.mem
         /\ stream' = mad_stream_buffer(stream, in.ptr, in.length)
    /\ lastDecode' = NoDecode
    /\ fatal' = IF fatal = "none" THEN "none" ELSE "resupplied"
    /\ UNCHANGED << phase, heap, _Stream, _Frame, _Synth, frame, synth,
                    decoded, synthDone >>

SetInput == SetInputFrom(Inputs)
SetInputWellFormed == SetInputFrom(SynthInputs)
SetInputMinimal == SetInputFrom(ErrInputs)

ErrorSetTo(codes) ==
    /\ phase = "Initialized"
    /\ \E value \in codes : stream' = [stream EXCEPT !.error = ErrorCode[value]]
    /\ lastDecode' = NoDecode
    /\ UNCHANGED << phase, heap, _Stream, _Frame, _Synth, frame, synth, mem,
                    decoded, synthDone, fatal >>

ErrorSet == ErrorSetTo(SetterCodes)
ErrorSetAny == ErrorSetTo(ErrorNames)

\* the bool DecodeFrame returns, with the comparison inverted
DecodeResultInverted(r) == r # 0

\* the bool DecodeFrame returns for the engine's result
DecodeResult(r) == r # -1

\* DecodeFrame that decodes again when the first attempt fails recoverably
DecodeFrameRetrying(st, fr, h, m, canAlloc) ==
    LET r1 == mad_frame_decode(st, fr, h, m, canAlloc)
        r2 == mad_frame_decode(r1.stream, r1.frame, r1.heap, m, canAlloc)
    IN  IF r1.ret = -1 /\ MAD_RECOVERABLE(r1.stream.error) # 0
        THEN [eng |-> r2, ret |-> DecodeResult(r2.ret), attempts |-> 2]
        ELSE [eng |-> r1, ret |-> DecodeResult(r1.ret), attempts |-> 1]

\* the body of DecodeFrame: one forwarded call, its result compared with -1
DecodeFrameCall(st, fr, h, m, canAlloc) ==
    LET r == mad_frame_decode(st, fr, h, m, canAlloc)
    IN  [eng |-> r, ret |-> DecodeResult(r.ret), attempts |-> 1]

DecodeFrame ==
    /\ phase = "Initialized"
    /\ \E canAlloc \in BOOLEAN :
         LET c == DecodeFrameCall(stream, frame, heap, mem, canAlloc)
             e == c.eng.stream.error
         IN  /\ stream' = c.eng.stream
             /\ frame' = c.eng.frame
             /\ heap' = c.eng.heap
             /\ lastDecode' = [ret |-> c.ret, engineRet |-> c.eng.ret,
                               attempts |-> c.attempts, tok |-> c.eng.tok,
                               whole |-> c.eng.whole]
             /\ decoded' = IF c.eng.ret = 0 THEN c.eng.tok ELSE "none"
             /\ fatal' = IF c.eng.ret = 0 THEN fatal
                         ELSE IF e \in {ErrorCode.BufferLength, ErrorCode.BufferData}
                              THEN "pendingBuffer"
                         ELSE IF e = ErrorCode.Memory THEN "pendingMemory"
                         ELSE fatal
    /\ synthDone' = FALSE
    /\ UNCHANGED << phase, _Stream, _Frame, _Synth, synth, mem >>

\* callers run SynthFrame once the frame block holds a decoded frame
\* ("This should be called after DecodeFrame")
SynthFrame ==
    /\ phase = "Initialized"
    /\ frame.sbsample # 0
    /\ synth' = mad_synth_frame(synth, frame)
    /\ synthDone' = TRUE
    /\ lastDecode' = NoDecode
    /\ UNCHANGED << phase, heap, _Stream, _Frame, _Synth, stream, frame, mem,
                    decoded, fatal >>

Init ==
    /\ phase = "Uninitialized"
    /\ heap = {}
    /\ _Stream = 0
    /\ _Frame = 0
    /\ _Synth = 0
    /\ stream = ZeroStream
    /\ frame = ZeroFrame
    /\ synth = ZeroSynth
    /\ mem = << >>
    /\ lastDecode = NoDecode
    /\ decoded = "none"
    /\ synthDone = FALSE
    /\ fatal = "none"

Next ==
    \/ Initialize
    \/ Terminate
    \/ SetInput
    \/ ErrorSet
    \/ DecodeFrame
    \/ SynthFrame

Spec == Init /\ [][Next]_vars

\* sessions over well-formed streams of two kinds of frame
NextSynth ==
    \/ Initialize
    \/ Terminate
    \/ SetInputWellFormed
    \/ ErrorSet
    \/ DecodeFrame
    \/ SynthFrame

SpecSynth == Init /\ [][NextSynth]_vars

\* sessions in which the caller installs any code of the taxonomy
NextErr ==
    \/ Initialize
    \/ Terminate
    \/ SetInputMinimal
    \/ ErrorSetAny
    \/ DecodeFrame
    \/ SynthFrame

SpecErr == Init /\ [][NextErr]_vars

(* ------------------------------ claims --------------------------------- *)
\* the state right after a DecodeFrame call
AfterDecode == lastDecode.attempts > 0
\* a step that is a DecodeFrame call
DecodeStep == lastDecode'.attempts > 0

FatalNames == {"BufferLength", "BufferData", "Memory"}
FatalCodes == { ErrorCode[n] : n \in FatalNames }

\* C1: DecodeFrame returns false exactly when the engine's decode reports -1,
\* and then the error read right afterwards is not None; it returns true
\* exactly when the decode succeeded (a valid frame was decoded).
C1_DecodeFrameReturn ==
    AfterDecode =>
        /\ (lastDecode.ret = FALSE) <=> (lastDecode.engineRet = -1)
        /\ (lastDecode.ret = FALSE) => Error # ErrorCode.None
        /\ (lastDecode.ret = TRUE) <=> (decoded \in ValidFrames)

\* a DecodeFrame call that returned false, at the end of the input
C1_Witness ==
    /\ AfterDecode
    /\ lastDecode.ret = FALSE
    /\ lastDecode.engineRet = -1
    /\ Error = ErrorCode.BufferLength

\* C2: whichever code of the taxonomy is the current error, ErrorRecoverable
\* is false for None, BufferLength, BufferData and Memory and true for every
\* code from LostSync to BadStero.
C2_Recoverability ==
    phase = "Initialized" =>
        \A n \in ErrorNames :
            Error = ErrorCode[n] =>
                (ErrorRecoverable <=> n \notin (FatalNames \cup {"None"}))

\* the last code of the taxonomy, which only the setter can install, is held
C2_Witness ==
    /\ phase = "Initialized"
    /\ Error = ErrorCode.BadStero
    /\ ErrorRecoverable

\* C3: after Terminate no state block the session acquired is still allocated.
C3_AllReleased == phase = "Terminated" => heap = {}

C4_SucceedsLater ==
    /\ AfterDecode
    /\ lastDecode.ret = TRUE
    /\ Error = ErrorCode.LostSync
    /\ decoded = "okA"

C7_OnlySynthFrameUpdates ==
    /\ [][(phase = "Initialized" /\ phase' = "Initialized" /\ ~SynthFrame) =>
             /\ SampleRate' = SampleRate
             /\ Channels' = Channels
             /\ Output' = Output]_vars
    /\ []((synthDone /\ decoded # "none") =>
             /\ SampleRate = HeaderOf(decoded).samplerate
             /\ Channels = HeaderOf(decoded).channels)

\* a frame of the second kind decoded after one of the first kind was
\* synthesized: the properties still show the first frame's format
C7_Witness ==
    /\ AfterDecode
    /\ decoded = "okB"
    /\ ~synthDone
    /\ SampleRate = HeaderOf("okA").samplerate
    /\ Channels = HeaderOf("okA").channels

\* C8: after a successful DecodeFrame of a valid frame followed by SynthFrame
\* the PCM block holds FrameSampleCount (1152) samples per channel.
C8_FrameSampleCount ==
    (synthDone /\ decoded \in ValidFrames) => synth.pcm.length = FrameSampleCount

C8_Witness ==
    /\ synthDone
    /\ decoded = "okA"
    /\ synth.pcm.length = 1152
    /\ synth.pcm.channels = 2

C10_CursorsOrdered ==
    /\ [](phase = "Initialized" =>
             /\ stream.buffer <= CurrentFrame
             /\ CurrentFrame <= NextFrame
             /\ NextFrame <= stream.bufend)
    /\ [][DecodeStep => NextFrame' >= NextFrame]_vars

\* a frame decoded behind a skipped byte, ending where the region ends
C10_Witness ==
    /\ AfterDecode
    /\ lastDecode.ret = TRUE
    /\ stream.buffer < CurrentFrame
    /\ CurrentFrame < NextFrame
    /\ NextFrame = stream.bufend
====
